---- MODULE Spec2Model ----
(***************************************************************************)
(* Kenmei Knowledge Base API (src/kenmei_knowledge_api.py).                *)
(*                                                                         *)
(* The service keeps five in-memory catalog tables, built when the module  *)
(* is loaded, and answers seven operations over them.  The model keeps     *)
(* the tables as state, so that "the handlers never change them" is a      *)
(* property to check and not an assumption, together with the wall clock   *)
(* and the request being served with its response.  A handler runs         *)
(* atomically: the server receives a request and computes the response in  *)
(* one step, then sends it and waits for the next request.                 *)
(*                                                                         *)
(* A Python str that a handler computes on is the sequence of its          *)
(* characters, Text("abc") = <<"a", "b", "c">>, with Python's operations   *)
(* on it (lower, in, join, slicing, formatting) written out; a str that is *)
(* only passed through is a TLA+ string.  An Optional[str] query parameter *)
(* is a sequence of zero (None) or one text.  Time is counted              *)
(* in hours from the moment the module is loaded: the timestamps of the    *)
(* tables are datetime.now() +/- timedelta(...) taken at that moment.      *)
(* Floats that are only passed through are kept as their decimal text;     *)
(* success_rate, which is compared, is kept in hundredths.                 *)
(***************************************************************************)
EXTENDS Integers, Sequences, FiniteSets, TLC

(***************************************************************************)
(* Python string and list primitives.                                      *)
(***************************************************************************)

\* The characters of the texts of the tables and of the requests, and the line break.
Characters ==
  {" ", "'", ",", "-", ".", "0", "1", "2", "3", "4", "5", "6", "7", "8", ":", "A",
   "B", "C", "D", "E", "F", "G", "H", "I", "K", "L", "M", "N", "P", "Q", "R", "S",
   "T", "U", "V", "[", "]", "a", "b", "c", "d", "e", "f", "g", "h", "i", "k", "l",
   "m", "n", "o", "p", "q", "r", "s", "t", "u", "v", "w", "x", "y", "z", "á", "é",
   "í", "ñ", "ó", "ú", "\n"}

\* The text of a string literal: the sequence of its characters.
Text(s) == [i \in 1..Len(s) |-> SubSeq(s, i, i)]

\* str.lower() on one character: the letters that occur in the inputs and tables.
LowerChar(c) ==
  CASE c = "A" -> "a" [] c = "B" -> "b" [] c = "C" -> "c" [] c = "D" -> "d"
    [] c = "E" -> "e" [] c = "F" -> "f" [] c = "G" -> "g" [] c = "H" -> "h"
    [] c = "I" -> "i" [] c = "J" -> "j" [] c = "K" -> "k" [] c = "L" -> "l"
    [] c = "M" -> "m" [] c = "N" -> "n" [] c = "O" -> "o" [] c = "P" -> "p"
    [] c = "Q" -> "q" [] c = "R" -> "r" [] c = "S" -> "s" [] c = "T" -> "t"
    [] c = "U" -> "u" [] c = "V" -> "v" [] c = "W" -> "w" [] c = "X" -> "x"
    [] c = "Y" -> "y" [] c = "Z" -> "z" [] c = "Í" -> "í" [] c = "À" -> "à"
    [] c = "Ó" -> "ó" [] c = "Ú" -> "ú" [] c = "É" -> "é" [] c = "Á" -> "á"
    [] OTHER -> c

\* s.lower()
Lower(s) == [i \in 1..Len(s) |-> LowerChar(s[i])]

\* `sub in s` for strings: some slice of s equals sub (the empty string is in every string).
StrIn(sub, s) ==
  \E i \in 1..(Len(s) - Len(sub) + 1) : SubSeq(s, i, i + Len(sub) - 1) = sub

\* sep.join(parts)
RECURSIVE Join(_, _)
Join(sep, parts) ==
  IF Len(parts) = 0 THEN <<>>
  ELSE IF Len(parts) = 1 THEN parts[1]
  ELSE parts[1] \o sep \o Join(sep, Tail(parts))

\* s[:n]
Prefix(s, n) == SubSeq(s, 1, IF Len(s) < n THEN Len(s) ELSE n)

\* f"{n}" for an integer n >= 0: its decimal digits.
RECURSIVE IntText(_)
IntText(n) ==
  LET digit(d) == <<"0", "1", "2", "3", "4", "5", "6", "7", "8", "9">>[d + 1]
  IN  IF n < 10 THEN <<digit(n)>> ELSE IntText(n \div 10) \o <<digit(n % 10)>>

\* Truthiness of an Optional[str] parameter in `if param:`: None and "" are falsy.
Truthy(opt) == Len(opt) = 1 /\ Len(opt[1]) > 0

\* list.extend
Extend(xs, ys) == xs \o ys

(***************************************************************************)
(* The catalog tables as the module builds them (MOCK DATA).               *)
(* CELL_SITES_DB is a dict: its insertion order is the order of this       *)
(* sequence of (key, sites) entries.                                       *)
(***************************************************************************)

CellSitesLiteral ==
  <<
    [key |-> Text("valencia"),
     sites |-> <<
        [site_id |-> Text("VLC-001"),
         site_name |-> "Valencia Centro - Ayuntamiento",
         location |-> "Plaza del Ayuntamiento, Valencia",
         technologies |-> <<"4G", "5G NSA", "5G SA">>,
         sectors |-> 3,
         status |-> "active",
         coverage_radius_km |-> "1.2",
         coordinates |-> [lat |-> "39.4699", lon |-> "-0.3763"]],
        [site_id |-> Text("VLC-002"),
         site_name |-> "Valencia Centro - Xàtiva",
         location |-> "Calle Xàtiva, Valencia",
         technologies |-> <<"4G", "5G NSA">>,
         sectors |-> 3,
         status |-> "degraded",
         coverage_radius_km |-> "0.8",
         coordinates |-> [lat |-> "39.4665", lon |-> "-0.3769"]],
        [site_id |-> Text("VLC-003"),
         site_name |-> "Valencia Centro - Colón",
         location |-> "Plaza de Colón, Valencia",
         technologies |-> <<"4G", "5G NSA", "5G SA">>,
         sectors |-> 3,
         status |-> "active",
         coverage_radius_km |-> "1.5",
         coordinates |-> [lat |-> "39.4731", lon |-> "-0.3719"]]
      >>],
    [key |-> Text("paterna"),
     sites |-> <<
        [site_id |-> Text("PTR-001"),
         site_name |-> "Paterna Polígono Industrial",
         location |-> "Polígono Industrial Vara de Quart, Paterna",
         technologies |-> <<"4G", "5G NSA">>,
         sectors |-> 3,
         status |-> "active",
         coverage_radius_km |-> "2.0",
         coordinates |-> [lat |-> "39.5167", lon |-> "-0.45"]],
        [site_id |-> Text("PTR-002"),
         site_name |-> "Paterna Centro Tecnológico",
         location |-> "Parc Tecnològic, Paterna",
         technologies |-> <<"4G", "5G NSA", "5G SA">>,
         sectors |-> 3,
         status |-> "active",
         coverage_radius_km |-> "1.8",
         coordinates |-> [lat |-> "39.52", lon |-> "-0.445"]]
      >>],
    [key |-> Text("madrid"),
     sites |-> <<
        [site_id |-> Text("MAD-A3-280"),
         site_name |-> "A3 Autovía - KM 280",
         location |-> "Autovía A3, KM 280",
         technologies |-> <<"4G", "VoLTE">>,
         sectors |-> 3,
         status |-> "active",
         coverage_radius_km |-> "3.5",
         coordinates |-> [lat |-> "39.75", lon |-> "-1.2"]]
      >>],
    [key |-> Text("barcelona"),
     sites |-> <<
        [site_id |-> Text("BCN-M01"),
         site_name |-> "Barcelona Metro L1 - Arc Triomf",
         location |-> "Metro L1, Estación Arc de Triomf",
         technologies |-> <<"4G", "VoLTE">>,
         sectors |-> 2,
         status |-> "active",
         coverage_radius_km |-> "0.3",
         coordinates |-> [lat |-> "41.3908", lon |-> "2.1808"]]
      >>]
  >>

ActiveIncidentsLiteral ==
  <<
    [incident_id |-> Text("INC-2024-1142"),
     issue_type |-> "interference",
     affected_area |-> Text("Valencia Centro - Plaza Ayuntamiento"),
     affected_sites |-> <<"VLC-001", "VLC-002">>,
     severity |-> Text("high"),
     start_time |-> -18,
     estimated_resolution |-> 6,
     status |-> "in_progress",
     description |-> Text("PCI conflict detectado entre site VLC-001 sector 2 y VLC-002 sector 1 causando interferencia co-channel en banda 5G NSA. Kenmei AI ha identificado overshooting en VLC-002."),
     affected_customers |-> 1250],
    [incident_id |-> Text("INC-2024-1138"),
     issue_type |-> "coverage",
     affected_area |-> Text("Paterna - Polígono Industrial Vara de Quart"),
     affected_sites |-> <<"PTR-001">>,
     severity |-> Text("medium"),
     start_time |-> -168,
     estimated_resolution |-> 48,
     status |-> "investigating",
     description |-> Text("Degradación gradual de señal 5G detectada por Kenmei Geolocation. Análisis de drive test virtual muestra caída de RSRP en -10 dBm en última semana. Probable misconfiguration de tilt de antena."),
     affected_customers |-> 450]
  >>

ScheduledMaintenanceLiteral ==
  <<
    [maintenance_id |-> "MAINT-2024-0891",
     sites |-> <<"VLC-002">>,
     scheduled_start |-> -20,
     scheduled_end |-> 4,
     maintenance_type |-> "Software upgrade + antenna optimization",
     impact |-> "Posibles cortes intermitentes de 5G NSA, fallback a 4G disponible",
     affected_services |-> <<"5G NSA">>,
     notification_sent |-> TRUE]
  >>

KenmeiProductsLiteral ==
  <<
    [product_name |-> "Kenmei AI Agents - Anomaly Detection",
     category |-> Text("AI Agents"),
     description |-> "Detección automática de anomalías en redes móviles usando Machine Learning. Identifica patrones anormales en KPIs antes de que afecten a clientes.",
     use_cases |-> <<
        "Detección temprana de degradación de cobertura",
        "Identificación de interferencias (PCI conflicts, RSI)",
        "Predicción de fallos de handover",
        "Alertas automáticas de congestión de red"
      >>,
     benefits |-> <<
        "Reduce MTTR (Mean Time To Repair) en 60%",
        "Detecta problemas 24-48h antes que métodos tradicionales",
        "Automatiza el 70% de diagnósticos de primer nivel"
      >>,
     url |-> "https://www.kenmei.ai/solutions/ai-products/anomalies"],
    [product_name |-> "Kenmei Geolocation - Virtual Drive Testing",
     category |-> Text("AI Products"),
     description |-> "Convierte datos de usuarios reales en análisis geo-localizado de calidad de red. Elimina la necesidad de drive tests físicos.",
     use_cases |-> <<
        "Validación de rollout 5G sin coste de drive testing",
        "Mapas de calor de cobertura en tiempo real",
        "Análisis de rutas (carreteras, ferrocarril, metro)",
        "Optimización de cobertura indoor"
      >>,
     benefits |-> <<
        "Reduce costes de drive testing en 80%",
        "Cobertura 100x mayor que drive test manual",
        "Datos actualizados continuamente vs snapshots"
      >>,
     url |-> "https://www.kenmei.ai/solutions/ai-products/geolocation"],
    [product_name |-> "Kenmei Telco Fabric",
     category |-> Text("Data Fabric"),
     description |-> "Unifica datos de radio, core y operaciones en una capa única query-ready. Elimina silos de datos entre vendors.",
     use_cases |-> <<
        "Correlación de eventos entre RAN y Core",
        "Queries cross-vendor en segundos",
        "Dashboards unificados de KPIs multi-tecnología",
        "Data lake telco con semantic layer"
      >>,
     benefits |-> <<
        "Reduce tiempo de troubleshooting de horas a minutos",
        "Elimina 80% de trabajo manual de correlación de logs",
        "Habilita uso de AI sobre datos unificados"
      >>,
     url |-> "https://www.kenmei.ai/solutions/telco-fabric"],
    [product_name |-> "Kenmei Interference Detection",
     category |-> Text("AI Products"),
     description |-> "Detecta y diagnostica automáticamente interferencias en redes móviles (PCI conflicts, inter-cell, external).",
     use_cases |-> <<
        "Detección de PCI conflicts en rollout 5G",
        "Identificación de interferencias externas (radar, military)",
        "Análisis de inter-cell interference",
        "Optimización automática de neighbor lists"
      >>,
     benefits |-> <<
        "Identifica >95% de interferencias automáticamente",
        "Recomienda acciones correctivas específicas",
        "Integra con Telco Fabric para análisis multi-capa"
      >>,
     url |-> "https://www.kenmei.ai/solutions/ai-products/interference"]
  >>

SimilarCasesLiteral ==
  <<
    [case_id |-> Text("CASE-5G-0782"),
     issue_description |-> "Pérdida de cobertura 5G en zona urbana con fallback a 4G",
     root_cause |-> "PCI conflict entre dos sites cercanos debido a expansion de red. Overshooting de antena recién instalada",
     solution_applied |-> "Ajuste de tilt mecánico de -2° en site VLC-002 sector 1 + reconfiguración de PCI de 156 a 289. Optimización MLB para balanceo de carga.",
     resolution_time_hours |-> "8.5",
     success_rate |-> 98,
     location_type |-> Text("urban")],
    [case_id |-> Text("CASE-5G-0654"),
     issue_description |-> "Fluctuación constante de señal 5G en polígono industrial",
     root_cause |-> "Interferencia externa de radar meteorológico en banda n78 (3.5 GHz). Kenmei Interference Detection identificó patrón periódico cada 12 segundos.",
     solution_applied |-> "Reconfiguración de carrier aggregation para evitar frecuencias afectadas. Activación de filtrado adaptativo. Escalado a autoridad de telecomunicaciones para coordinación de frecuencias.",
     resolution_time_hours |-> "72.0",
     success_rate |-> 92,
     location_type |-> Text("industrial")],
    [case_id |-> Text("CASE-4G-1023"),
     issue_description |-> "Baja velocidad de datos en autovía, calls OK pero datos lentos",
     root_cause |-> "Congestión de backhaul en site A3-KM280. Saturación de enlace microwave en horas pico (95% utilización). Kenmei AI detectó patrón de degradación gradual.",
     solution_applied |-> "Upgrade de backhaul de 1 Gbps a 10 Gbps fiber. Implementación de QoS en S1 interface. Activación de carrier aggregation para offload a banda adicional.",
     resolution_time_hours |-> "120.0",
     success_rate |-> 100,
     location_type |-> Text("highway")],
    [case_id |-> Text("CASE-VLT-0445"),
     issue_description |-> "Llamadas caídas en metro/túneles",
     root_cause |-> "Handover failure entre outdoor macro cell y indoor DAS system. Misconfiguration en A3 event offset. Kenmei detectó RLF rate >15%.",
     solution_applied |-> "Optimización de neighbor list, ajuste de A3 offset de 3dB a 1dB, configuración de TTT (Time To Trigger) de 320ms a 160ms. Activación de CS Fallback optimization.",
     resolution_time_hours |-> "12.0",
     success_rate |-> 95,
     location_type |-> Text("underground")]
  >>

(***************************************************************************)
(* Bounds of the model and the inputs the requests are drawn from.         *)
(***************************************************************************)

\* The clock runs from 0 (module load) to MaxNow hours.
MaxNow == 6
\* A diagnostic request carries at most MaxSymptoms symptoms.
MaxSymptoms == 2
\* The generalised case table of SpecAnyCases holds at most MaxCases cases.
MaxCases == 3

None == <<>>
Some(s) == <<s>>
OptionalOf(S) == {None} \cup {Some(s) : s \in S}

\* Location strings: exact keys in several cases, strings containing a key, strings
\* contained in keys (one of them in every key), the empty string, classifier keywords.
SiteLocations ==
  {Text("valencia"), Text("Valencia"), Text("PATERNA"), Text("madrid"), Text("barcelona"),
   Text(""), Text("val"), Text("a"), Text("downtown valencia"), Text("Valencia Centro"),
   Text("sevilla"), Text("madrid ")}
IncidentLocations ==
  {Text("valencia"), Text("VALENCIA"), Text("Centro"), Text("paterna"), Text(" - P"),
   Text("polígono"), Text("poligono"), Text("sevilla"), Text("")}
Severities ==
  {Text("high"), Text("HIGH"), Text("medium"), Text("Medium"), Text("low"), Text("hig"),
   Text("")}
Categories ==
  {Text("AI"), Text("ai products"), Text("AI Agents"), Text("fabric"), Text("Data Fabric"),
   Text("5G"), Text("")}
LocationTypes ==
  {Text("urban"), Text("Urban"), Text("INDUSTRIAL"), Text("highway"), Text("underground"),
   Text("rural"), Text("urba"), Text("")}
DiagLocations ==
  {Text("Valencia Centro"), Text("downtown valencia"), Text("a"), Text(""),
   Text("sevilla"), Text("Paterna"), Text("Poligono Industrial Paterna"),
   Text("poligono metro"), Text("Metro Poligono"), Text("polígono industrial"),
   Text("autovia madrid"), Text("Carretera Metro"), Text("metro barcelona"), Text("TUNEL"),
   Text("industrial autovia"), Text("Plaza")}
IssueTypes ==
  {Text("interference"), Text("coverage"), Text("Cobertura"), Text("speed"),
   Text("Interference and coverage")}
SymptomTexts ==
  {Text("signal drop"), Text("slow data"), Text("No SIGNAL")}
Technologies == {Text("5G NSA")}

\* Lists of at most n elements of S.
SeqsUpTo(S, n) == UNION {[1..k -> S] : k \in 0..n}

(***************************************************************************)
(* State.                                                                  *)
(***************************************************************************)

VARIABLES
  CELL_SITES_DB,             \* dict location key -> list of cell sites
  ACTIVE_INCIDENTS_DB,       \* list of incidents
  SCHEDULED_MAINTENANCE_DB,  \* list of maintenance windows
  KENMEI_PRODUCTS_DB,        \* list of products
  SIMILAR_CASES_DB,          \* list of resolved cases
  now,                       \* datetime.now(), in hours since the module was loaded
  request,                   \* the last request received
  response                   \* the response returned for it

tables == <<CELL_SITES_DB, ACTIVE_INCIDENTS_DB, SCHEDULED_MAINTENANCE_DB,
            KENMEI_PRODUCTS_DB, SIMILAR_CASES_DB>>
vars == <<CELL_SITES_DB, ACTIVE_INCIDENTS_DB, SCHEDULED_MAINTENANCE_DB,
          KENMEI_PRODUCTS_DB, SIMILAR_CASES_DB, now, request, response>>

(***************************************************************************)
(* Dict and list objects.                                                  *)
(***************************************************************************)

\* key in d
DictHas(d, k) == \E i \in 1..Len(d) : d[i].key = k
\* d[key]
DictGet(d, k) == d[CHOOSE i \in 1..Len(d) : d[i].key = k].sites
\* list(d.keys()), in insertion order
DictKeys(d) == [i \in 1..Len(d) |-> d[i].key]

\* repr() of a list of strings, as an f-string prints it: ['a', 'b']
ListRepr(xs) ==
  Text("[") \o Join(Text(", "), [i \in 1..Len(xs) |-> Text("'") \o xs[i] \o Text("'")])
            \o Text("]")

\* A handler's local name for a list: the items, and whether the name refers to the
\* table's own list object (shared) or to a list the handler created.

\* `cases = TABLE` in place of `cases = TABLE.copy()`: the local name is the table itself.
list_copy_missing(table) == [items |-> table, shared |-> TRUE]

\* table.copy() creates a new list with the same items.
list_copy(table) == [items |-> table, shared |-> FALSE]

\* A list comprehension [x for x in xs if keep(x)] creates a new list; its items are
\* SelectSeq(xs, keep), in the order of xs.
comprehension(items) == [items |-> items, shared |-> FALSE]

\* An unstable insertion: a case goes in front of the cases of equal rate.
RECURSIVE InsertByRate_unstable(_, _)
InsertByRate_unstable(c, sorted) ==
  IF Len(sorted) = 0 THEN <<c>>
  ELSE IF Head(sorted).success_rate > c.success_rate
       THEN <<Head(sorted)>> \o InsertByRate_unstable(c, Tail(sorted))
       ELSE <<c>> \o sorted

\* list.sort(key=success_rate, reverse=True): stable, so equal keys keep their order.
\* Each case is inserted behind every case whose rate is at least its own.
RECURSIVE InsertByRate(_, _)
InsertByRate(c, sorted) ==
  IF Len(sorted) = 0 THEN <<c>>
  ELSE IF Head(sorted).success_rate >= c.success_rate
       THEN <<Head(sorted)>> \o InsertByRate(c, Tail(sorted))
       ELSE <<c>> \o sorted

RECURSIVE SortBySuccessRate(_)
SortBySuccessRate(xs) ==
  IF Len(xs) = 0 THEN <<>>
  ELSE InsertByRate(xs[Len(xs)], SortBySuccessRate(SubSeq(xs, 1, Len(xs) - 1)))

\* ref.sort(...) sorts the list object in place.
list_sort(ref) == [ref EXCEPT !.items = SortBySuccessRate(ref.items)]

\* The table after a handler ran with local list `ref`: changed only if ref is the table itself.
TableAfter(table, ref) == IF ref.shared THEN ref.items ELSE table

\* The window test with the end of the window excluded.
IsActive_end_excluded(m, t) == m.scheduled_start <= t /\ t < m.scheduled_end

\* m["scheduled_start"] <= now <= m["scheduled_end"]
IsActive(m, t) == m.scheduled_start <= t /\ t <= m.scheduled_end

(***************************************************************************)
(* The handlers, as functions of the tables and the request.               *)
(***************************************************************************)

\* GET /
read_root ==
  [status |-> 200,
   body |-> [service |-> "Kenmei Knowledge Base API", status |-> "online", version |-> "1.0.0",
             endpoints |-> <<"/network/sites", "/network/incidents", "/network/maintenance",
                             "/solutions/products", "/solutions/cases", "/diagnostics/analyze">>]]

\* get_cell_sites looking the location up as given, without lower().
get_cell_sites_as_given(location) ==
  IF ~DictHas(CELL_SITES_DB, location)
  THEN [status |-> 404,
        detail |-> Text("No cell sites found for location: ") \o location
                    \o Text(". Available: ") \o ListRepr(DictKeys(CELL_SITES_DB)),
        body |-> <<>>]
  ELSE [status |-> 200, detail |-> Text(""), body |-> DictGet(CELL_SITES_DB, location)]

\* GET /network/sites
get_cell_sites(location) ==
  LET location_key == Lower(location)
  IN  IF ~DictHas(CELL_SITES_DB, location_key)
      THEN [status |-> 404,
            detail |-> Text("No cell sites found for location: ") \o location
                        \o Text(". Available: ") \o ListRepr(DictKeys(CELL_SITES_DB)),
            body |-> <<>>]
      ELSE [status |-> 200, detail |-> Text(""), body |-> DictGet(CELL_SITES_DB, location_key)]

\* get_active_incidents comparing the severity as given, without lower().
get_active_incidents_as_given(location, severity) ==
  LET inArea(inc) == StrIn(Lower(location[1]), Lower(inc.affected_area))
      incidents1 == IF Truthy(location) THEN SelectSeq(ACTIVE_INCIDENTS_DB, inArea)
                    ELSE ACTIVE_INCIDENTS_DB
      hasSeverity(inc) == inc.severity = severity[1]
      incidents2 == IF Truthy(severity) THEN SelectSeq(incidents1, hasSeverity) ELSE incidents1
  IN  [status |-> 200, body |-> incidents2]

\* GET /network/incidents
get_active_incidents(location, severity) ==
  LET incidents0 == list_copy(ACTIVE_INCIDENTS_DB)
      inArea(inc) == StrIn(Lower(location[1]), Lower(inc.affected_area))
      incidents1 == IF Truthy(location)
                    THEN comprehension(SelectSeq(incidents0.items, inArea))
                    ELSE incidents0
      hasSeverity(inc) == inc.severity = Lower(severity[1])
      incidents2 == IF Truthy(severity)
                    THEN comprehension(SelectSeq(incidents1.items, hasSeverity))
                    ELSE incidents1
  IN  [status |-> 200, body |-> incidents2.items]

\* GET /network/maintenance
get_scheduled_maintenance(active_only, t) ==
  LET maintenance0 == list_copy(SCHEDULED_MAINTENANCE_DB)
      active(m) == IsActive(m, t)
      maintenance1 == IF active_only
                      THEN comprehension(SelectSeq(maintenance0.items, active))
                      ELSE maintenance0
  IN  [status |-> 200, body |-> maintenance1.items]

\* GET /solutions/products
get_kenmei_products(category) ==
  LET products0 == list_copy(KENMEI_PRODUCTS_DB)
      inCategory(p) == StrIn(Lower(category[1]), Lower(p.category))
      products1 == IF Truthy(category)
                   THEN comprehension(SelectSeq(products0.items, inCategory))
                   ELSE products0
  IN  [status |-> 200, body |-> products1.items]

\* GET /solutions/cases: the response and the case table the handler leaves behind.
get_similar_cases(location_type) ==
  LET cases0 == list_copy(SIMILAR_CASES_DB)
      ofType(c) == c.location_type = Lower(location_type[1])
      cases1 == IF Truthy(location_type)
                THEN comprehension(SelectSeq(cases0.items, ofType))
                ELSE cases0
      cases2 == list_sort(cases1)
  IN  [response |-> [status |-> 200, body |-> cases2.items],
       table |-> TableAfter(SIMILAR_CASES_DB, cases2)]

\* POST /diagnostics/analyze, step by step.

\* Site resolution testing one direction only: the key is in the location.
ResolveSites_one_way(location_key) ==
  LET RECURSIVE loop(_, _)
      loop(i, cell_sites) ==
        IF i > Len(CELL_SITES_DB) THEN cell_sites
        ELSE loop(i + 1, IF StrIn(CELL_SITES_DB[i].key, location_key)
                         THEN Extend(cell_sites, CELL_SITES_DB[i].sites)
                         ELSE cell_sites)
  IN  loop(1, <<>>)

\* The cell sites of every bucket whose key is in the location or contains it.
ResolveSites(location_key) ==
  LET matches(key) == StrIn(key, location_key) \/ StrIn(location_key, key)
      RECURSIVE loop(_, _)
      loop(i, cell_sites) ==
        IF i > Len(CELL_SITES_DB) THEN cell_sites
        ELSE loop(i + 1, IF matches(CELL_SITES_DB[i].key)
                         THEN Extend(cell_sites, CELL_SITES_DB[i].sites)
                         ELSE cell_sites)
  IN  loop(1, <<>>)

\* The incidents whose affected area contains the location.
ResolveIncidents(location_key) ==
  LET inArea(inc) == StrIn(location_key, Lower(inc.affected_area))
  IN  SelectSeq(ACTIVE_INCIDENTS_DB, inArea)

\* The maintenance windows active at time t.
ResolveMaintenance(t) ==
  LET active(m) == IsActive(m, t)
  IN  SelectSeq(SCHEDULED_MAINTENANCE_DB, active)

\* The chain with the underground rule tested first.
ClassifyLocation_metro_first(location_key) ==
  IF StrIn(Text("metro"), location_key) \/ StrIn(Text("tunel"), location_key)
  THEN Text("underground")
  ELSE IF StrIn(Text("poligono"), location_key) \/ StrIn(Text("industrial"), location_key)
  THEN Text("industrial")
  ELSE IF StrIn(Text("autovia"), location_key) \/ StrIn(Text("carretera"), location_key)
  THEN Text("highway")
  ELSE Text("urban")

\* The chain with a default type that no case of the catalog has.
ClassifyLocation_rural(location_key) ==
  IF StrIn(Text("poligono"), location_key) \/ StrIn(Text("industrial"), location_key)
  THEN Text("industrial")
  ELSE IF StrIn(Text("autovia"), location_key) \/ StrIn(Text("carretera"), location_key)
  THEN Text("highway")
  ELSE IF StrIn(Text("metro"), location_key) \/ StrIn(Text("tunel"), location_key)
  THEN Text("underground")
  ELSE Text("rural")

\* The location type of a location string: the if/elif chain.
ClassifyLocation(location_key) ==
  IF StrIn(Text("poligono"), location_key) \/ StrIn(Text("industrial"), location_key)
  THEN Text("industrial")
  ELSE IF StrIn(Text("autovia"), location_key) \/ StrIn(Text("carretera"), location_key)
  THEN Text("highway")
  ELSE IF StrIn(Text("metro"), location_key) \/ StrIn(Text("tunel"), location_key)
  THEN Text("underground")
  ELSE Text("urban")

\* The cases of a location type, best success rate first, as a local list.
ResolveCases(location_type) ==
  LET ofType(c) == c.location_type = location_type
      similar_cases == comprehension(SelectSeq(SIMILAR_CASES_DB, ofType))
  IN  list_sort(similar_cases)

\* The rules as an if/elif chain: the second rule is skipped when the first fires.
RecommendProducts_elif(issue_type, symptoms) ==
  LET issue_lower == Lower(issue_type)
      p1 == IF \/ StrIn(Text("interference"), issue_lower)
               \/ StrIn(Text("signal"), Lower(Join(Text(" "), symptoms)))
            THEN <<KENMEI_PRODUCTS_DB[4]>>
            ELSE IF StrIn(Text("coverage"), issue_lower) \/ StrIn(Text("cobertura"), issue_lower)
                 THEN <<KENMEI_PRODUCTS_DB[2]>> ELSE <<>>
  IN  Append(p1, KENMEI_PRODUCTS_DB[1])

\* The first rule split in two, one per condition, each appending the
\* Interference-Detection product.
RecommendProducts_split(issue_type, symptoms) ==
  LET issue_lower == Lower(issue_type)
      p0 == <<>>
      p1 == IF StrIn(Text("interference"), issue_lower)
            THEN Append(p0, KENMEI_PRODUCTS_DB[4]) ELSE p0
      p2 == IF StrIn(Text("signal"), Lower(Join(Text(" "), symptoms)))
            THEN Append(p1, KENMEI_PRODUCTS_DB[4]) ELSE p1
      p3 == IF StrIn(Text("coverage"), issue_lower) \/ StrIn(Text("cobertura"), issue_lower)
            THEN Append(p2, KENMEI_PRODUCTS_DB[2]) ELSE p2
  IN  Append(p3, KENMEI_PRODUCTS_DB[1])

\* The products recommended for an issue type and symptoms.
RecommendProducts(issue_type, symptoms) ==
  LET issue_lower == Lower(issue_type)
      p0 == <<>>
      p1 == IF \/ StrIn(Text("interference"), issue_lower)
               \/ StrIn(Text("signal"), Lower(Join(Text(" "), symptoms)))
            THEN Append(p0, KENMEI_PRODUCTS_DB[4]) ELSE p0
      p2 == IF StrIn(Text("coverage"), issue_lower) \/ StrIn(Text("cobertura"), issue_lower)
            THEN Append(p1, KENMEI_PRODUCTS_DB[2]) ELSE p1
  IN  Append(p2, KENMEI_PRODUCTS_DB[1])

NoContext == Text("No hay contexto adicional disponible")

\* The narrative without the line about similar cases.
BuildContext_no_cases(cell_sites, active_incidents, scheduled_maintenance, similar_cases) ==
  LET c1 == IF Len(cell_sites) > 0
            THEN <<Text("Hay ") \o IntText(Len(cell_sites)) \o Text(" sites en el área: ")
                   \o Join(Text(", "), [i \in 1..Len(cell_sites) |-> cell_sites[i].site_id])>>
            ELSE <<>>
      c2 == IF Len(active_incidents) > 0
            THEN Append(c1, Text(":warning: ALERTA: Hay ") \o IntText(Len(active_incidents))
                            \o Text(" incidencias activas en la zona"))
            ELSE c1
      c3 == IF Len(scheduled_maintenance) > 0
            THEN Append(c2, Text(":wrench: Hay mantenimiento programado activo ")
                            \o Text("que puede estar afectando"))
            ELSE c2
  IN  IF Len(c3) > 0 THEN Join(<<"\n">>, c3) ELSE Text("No hay contexto adicional disponible")

\* The narrative built from what was found.  The pictographs that open three of the
\* lines are written as their names between colons.
BuildContext(cell_sites, active_incidents, scheduled_maintenance, similar_cases) ==
  LET c0 == <<>>
      c1 == IF Len(cell_sites) > 0
            THEN Append(c0, Text("Hay ") \o IntText(Len(cell_sites)) \o Text(" sites en el área: ")
                            \o Join(Text(", "), [i \in 1..Len(cell_sites) |-> cell_sites[i].site_id]))
            ELSE c0
      c2 == IF Len(active_incidents) > 0
            THEN Append(c1, Text(":warning: ALERTA: Hay ") \o IntText(Len(active_incidents))
                            \o Text(" incidencias activas en la zona"))
                 \o [i \in 1..Len(active_incidents) |->
                       Text("  - ") \o active_incidents[i].incident_id \o Text(": ")
                       \o Prefix(active_incidents[i].description, 150) \o Text("...")]
            ELSE c1
      c3 == IF Len(scheduled_maintenance) > 0
            THEN Append(c2, Text(":wrench: Hay mantenimiento programado activo ")
                            \o Text("que puede estar afectando"))
            ELSE c2
      c4 == IF Len(similar_cases) > 0
            THEN Append(c3, Text(":books: Se encontraron ") \o IntText(Len(similar_cases))
                            \o Text(" casos similares resueltos con éxito"))
            ELSE c3
  IN  IF Len(c4) > 0 THEN Join(<<"\n">>, c4) ELSE NoContext

\* The flag requiring both sites and incidents.
ContextFound_both(cell_sites, active_incidents) ==
  Len(cell_sites) > 0 /\ Len(active_incidents) > 0

\* The flag of the response.
ContextFound(cell_sites, active_incidents) == Len(cell_sites) > 0 \/ Len(active_incidents) > 0

analyze_diagnostic(req, t) ==
  LET location_key == Lower(req.location)
      cell_sites == ResolveSites(location_key)
      active_incidents == ResolveIncidents(location_key)
      scheduled_maintenance == ResolveMaintenance(t)
      location_type == ClassifyLocation(location_key)
      similar_cases == ResolveCases(location_type)
      recommended_products == RecommendProducts(req.issue_type, req.symptoms)
      additional_context == BuildContext(cell_sites, active_incidents,
                                         scheduled_maintenance, similar_cases.items)
  IN  [response |->
         [status |-> 200,
          context_found |-> ContextFound(cell_sites, active_incidents),
          cell_sites_nearby |-> cell_sites,
          active_incidents |-> active_incidents,
          scheduled_maintenance |-> scheduled_maintenance,
          similar_cases |-> Prefix(similar_cases.items, 3),
          recommended_products |-> recommended_products,
          additional_context |-> additional_context],
       table |-> TableAfter(SIMILAR_CASES_DB, similar_cases)]

(***************************************************************************)
(* The state machine: the module is loaded, then requests arrive one at a  *)
(* time while the clock advances.                                          *)
(***************************************************************************)

NoRequest == [op |-> "none"]
NoResponse == [status |-> 0]

Init ==
  /\ CELL_SITES_DB = CellSitesLiteral
  /\ ACTIVE_INCIDENTS_DB = ActiveIncidentsLiteral
  /\ SCHEDULED_MAINTENANCE_DB = ScheduledMaintenanceLiteral
  /\ KENMEI_PRODUCTS_DB = KenmeiProductsLiteral
  /\ SIMILAR_CASES_DB = SimilarCasesLiteral
  /\ now = 0
  /\ request = NoRequest
  /\ response = NoResponse

\* The wall clock advances.
Tick ==
  /\ request = NoRequest
  /\ now < MaxNow
  /\ now' = now + 1
  /\ UNCHANGED <<tables, request, response>>

Health ==
  /\ request = NoRequest
  /\ request' = [op |-> "health"]
  /\ response' = read_root
  /\ UNCHANGED <<tables, now>>

ListSites ==
  /\ request = NoRequest
  /\ \E location \in SiteLocations :
    /\ request' = [op |-> "sites", location |-> location]
    /\ response' = get_cell_sites(location)
    /\ UNCHANGED <<tables, now>>

ListIncidents ==
  /\ request = NoRequest
  /\ \E location \in OptionalOf(IncidentLocations), severity \in OptionalOf(Severities) :
    /\ request' = [op |-> "incidents", location |-> location, severity |-> severity]
    /\ response' = get_active_incidents(location, severity)
    /\ UNCHANGED <<tables, now>>

ListMaintenance ==
  /\ request = NoRequest
  /\ \E active_only \in BOOLEAN :
    /\ request' = [op |-> "maintenance", active_only |-> active_only, at |-> now]
    /\ response' = get_scheduled_maintenance(active_only, now)
    /\ UNCHANGED <<tables, now>>

ListProducts ==
  /\ request = NoRequest
  /\ \E category \in OptionalOf(Categories) :
    /\ request' = [op |-> "products", category |-> category]
    /\ response' = get_kenmei_products(category)
    /\ UNCHANGED <<tables, now>>

ListCases ==
  /\ request = NoRequest
  /\ \E location_type \in OptionalOf(LocationTypes) :
    \E r \in {get_similar_cases(location_type)} :
        /\ request' = [op |-> "cases", location_type |-> location_type]
        /\ response' = r.response
        /\ SIMILAR_CASES_DB' = r.table
        /\ UNCHANGED <<CELL_SITES_DB, ACTIVE_INCIDENTS_DB, SCHEDULED_MAINTENANCE_DB,
                       KENMEI_PRODUCTS_DB, now>>

\* A diagnostic request with its fields drawn from the given sets.
DiagnoseWith(locations, issue_types, symptom_lists, technologies) ==
  /\ request = NoRequest
  /\ \E location \in locations, issue_type \in issue_types,
        symptoms \in symptom_lists, network_technology \in technologies :
     \E req \in {[location |-> location, issue_type |-> issue_type, symptoms |-> symptoms,
                   network_technology |-> network_technology]} :
     \E r \in {analyze_diagnostic(req, now)} :
        /\ request' = [op |-> "diagnose", body |-> req, at |-> now]
        /\ response' = r.response
        /\ SIMILAR_CASES_DB' = r.table
        /\ UNCHANGED <<CELL_SITES_DB, ACTIVE_INCIDENTS_DB, SCHEDULED_MAINTENANCE_DB,
                       KENMEI_PRODUCTS_DB, now>>

Diagnose ==
  DiagnoseWith(DiagLocations, IssueTypes, SeqsUpTo(SymptomTexts, MaxSymptoms),
               OptionalOf(Technologies))

\* The response is sent and the server waits for the next request.
Reply ==
  /\ request # NoRequest
  /\ request' = NoRequest
  /\ response' = NoResponse
  /\ UNCHANGED <<tables, now>>

Next ==
  \/ Tick
  \/ Reply
  \/ Health
  \/ ListSites
  \/ ListIncidents
  \/ ListMaintenance
  \/ ListProducts
  \/ ListCases
  \/ Diagnose

Spec == Init /\ [][Next]_vars

(***************************************************************************)
(* The same handlers over any case table.  The sort of the case listing    *)
(* and the narrative of the diagnosis do not depend on which cases the     *)
(* table holds; the table of the module has no two cases of equal success  *)
(* rate and a case of every location type, so ties and empty case lists    *)
(* are exercised on tables of at most MaxCases cases drawn from CaseKinds. *)
(***************************************************************************)

CaseKinds == [success_rate : {90, 95}, location_type : {Text("urban"), Text("industrial")}]

\* The case table with the given kinds, in order; a case's id is its position.
CaseTable(kinds) ==
  [i \in 1..Len(kinds) |->
     [case_id |-> Text("CASE-") \o IntText(i),
      issue_description |-> "",
      root_cause |-> "",
      solution_applied |-> "",
      resolution_time_hours |-> "1.0",
      success_rate |-> kinds[i].success_rate,
      location_type |-> kinds[i].location_type]]

InitAnyCases ==
  /\ CELL_SITES_DB = CellSitesLiteral
  /\ ACTIVE_INCIDENTS_DB = ActiveIncidentsLiteral
  /\ SCHEDULED_MAINTENANCE_DB = ScheduledMaintenanceLiteral
  /\ KENMEI_PRODUCTS_DB = KenmeiProductsLiteral
  /\ SIMILAR_CASES_DB \in {CaseTable(kinds) : kinds \in SeqsUpTo(CaseKinds, MaxCases)}
  /\ now = 0
  /\ request = NoRequest
  /\ response = NoResponse

\* Diagnostic requests that differ in their location only.
DiagnoseLocation == DiagnoseWith(DiagLocations, {Text("speed")}, {<<>>}, {None})

NextAnyCases ==
  \/ Tick
  \/ Reply
  \/ ListCases
  \/ DiagnoseLocation

SpecAnyCases == InitAnyCases /\ [][NextAnyCases]_vars

(***************************************************************************)
(* Properties.  A property about an operation reads the request that was   *)
(* received and the response returned for it.                              *)
(***************************************************************************)

\* The positions of the table entries with a key.
BucketsWithKey(k) == {i \in 1..Len(CellSitesLiteral) : CellSitesLiteral[i].key = k}

\* C1: site lookup returns exactly the bucket of the lower-cased location, in table
\* order, when that is a bucket key; for every other location it returns no sites and
\* a 404 whose detail lists every bucket key.
C1_SiteLookup ==
  request.op = "sites" =>
    LET hit == BucketsWithKey(Lower(request.location))
    IN  IF hit # {}
        THEN /\ response.status = 200
             /\ \A i \in hit : response.body = CellSitesLiteral[i].sites
        ELSE /\ response.status = 404
             /\ response.body = <<>>
             /\ \A i \in 1..Len(CellSitesLiteral) :
                  StrIn(Text("'") \o CellSitesLiteral[i].key \o Text("'"), response.detail)

\* A location that contains a bucket key without being one is answered 404, with the keys.
C1_Witness ==
  /\ request.op = "sites"
  /\ request.location = Text("downtown valencia")
  /\ response.status = 404
  /\ response.body = <<>>
  /\ StrIn(Text("['valencia', 'paterna', 'madrid', 'barcelona']"), response.detail)

\* The incidents of xs in the area of a location filter, all of xs if the filter is a no-op.
IncidentsInArea(xs, location, noop) ==
  LET inArea(inc) == StrIn(Lower(location[1]), Lower(inc.affected_area))
  IN  IF noop THEN xs ELSE SelectSeq(xs, inArea)

\* The incidents of xs of the severity of a severity filter, all of xs if it is a no-op.
IncidentsOfSeverity(xs, severity, noop) ==
  LET hasSeverity(inc) == inc.severity = Lower(severity[1])
  IN  IF noop THEN xs ELSE SelectSeq(xs, hasSeverity)

IsAbsent(opt) == opt = None
IsAbsentOrEmpty(opt) == opt = None \/ opt = Some(Text(""))

\* C2 as stated: only an absent filter is a no-op, so an empty severity selects the
\* incidents whose severity is the empty string.
C2_AsStated ==
  request.op = "incidents" =>
    response.body =
      IncidentsOfSeverity(
        IncidentsInArea(ActiveIncidentsLiteral, request.location, IsAbsent(request.location)),
        request.severity, IsAbsent(request.severity))

\* C2 (amended): the incident query returns exactly the table's incidents, in table order,
\* whose affected area contains the location and whose severity equals the severity value,
\* both compared in lower case, a filter that is absent or the empty string being a no-op;
\* the two filters give the same result applied in either order.
C2_IncidentQuery ==
  request.op = "incidents" =>
    /\ response.status = 200
    /\ response.body =
         IncidentsOfSeverity(
           IncidentsInArea(ActiveIncidentsLiteral, request.location,
                           IsAbsentOrEmpty(request.location)),
           request.severity, IsAbsentOrEmpty(request.severity))
    /\ response.body =
         IncidentsInArea(
           IncidentsOfSeverity(ActiveIncidentsLiteral, request.severity,
                               IsAbsentOrEmpty(request.severity)),
           request.location, IsAbsentOrEmpty(request.location))

\* Both filters given, in upper case: the location matches both incidents, the severity one.
C2_Witness ==
  /\ request.op = "incidents"
  /\ request.location = Some(Text(" - P"))
  /\ request.severity = Some(Text("HIGH"))
  /\ Len(response.body) = 1
  /\ response.body[1].incident_id = Text("INC-2024-1142")

\* xs is ys with some elements left out, the order kept.
RECURSIVE IsSubList(_, _)
IsSubList(xs, ys) ==
  IF Len(xs) = 0 THEN TRUE
  ELSE IF Len(ys) = 0 THEN FALSE
  ELSE IF Head(xs) = Head(ys) THEN IsSubList(Tail(xs), Tail(ys))
  ELSE IsSubList(xs, Tail(ys))

\* The windows of the table that are not active at time t.
InactiveWindows(t) ==
  {i \in 1..Len(ScheduledMaintenanceLiteral) :
     ~(ScheduledMaintenanceLiteral[i].scheduled_start <= t
       /\ t <= ScheduledMaintenanceLiteral[i].scheduled_end)}

\* C3 as stated: whenever it is called, active_only=true leaves out at least one window
\* of the table, which is the result of active_only=false.
C3_AsStated ==
  (request.op = "maintenance" /\ request.active_only) =>
    /\ IsSubList(response.body, ScheduledMaintenanceLiteral)
    /\ Len(response.body) < Len(ScheduledMaintenanceLiteral)

\* C3 (amended): active_only=false returns the whole table; active_only=true returns a
\* sub-list of it, every window of which has start <= now <= end, and the sub-list is
\* strict exactly when some window of the table is not active at the call time.
C3_MaintenanceQuery ==
  request.op = "maintenance" =>
    IF request.active_only
    THEN /\ IsSubList(response.body, ScheduledMaintenanceLiteral)
         /\ \A i \in 1..Len(response.body) :
              /\ response.body[i].scheduled_start <= request.at
              /\ request.at <= response.body[i].scheduled_end
         /\ (Len(response.body) < Len(ScheduledMaintenanceLiteral))
              <=> (InactiveWindows(request.at) # {})
    ELSE response.body = ScheduledMaintenanceLiteral

\* At the last hour of the only window, active_only=true returns the whole table.
C3_Witness ==
  /\ request.op = "maintenance"
  /\ request.active_only
  /\ request.at = 4
  /\ response.body = ScheduledMaintenanceLiteral
  /\ Len(response.body) = 1

\* The cases the case query selects for a location_type filter, in table order.
CasesSelected(location_type, noop) ==
  LET ofType(c) == c.location_type = Lower(location_type[1])
  IN  IF noop THEN SIMILAR_CASES_DB ELSE SelectSeq(SIMILAR_CASES_DB, ofType)

\* The position of a case in the case table (case ids are unique).
CasePosition(c) == CHOOSE i \in 1..Len(SIMILAR_CASES_DB) : SIMILAR_CASES_DB[i].case_id = c.case_id

\* body holds exactly the cases of `selected`, by success rate descending, cases of
\* equal rate in table order.
IsStableRanking(body, selected) ==
  /\ Len(body) = Len(selected)
  /\ {body[i] : i \in 1..Len(body)} = {selected[i] : i \in 1..Len(selected)}
  /\ \A i, j \in 1..Len(body) :
       i < j => /\ body[i].success_rate >= body[j].success_rate
                /\ body[i].success_rate = body[j].success_rate
                     => CasePosition(body[i]) < CasePosition(body[j])

\* C4 as stated: only an absent filter selects every case, so an empty location_type
\* selects the cases whose location type is the empty string.
C4_AsStated ==
  request.op = "cases" =>
    IsStableRanking(response.body,
                    CasesSelected(request.location_type, IsAbsent(request.location_type)))

\* C4 (amended): the case query returns exactly the table's cases whose location_type
\* equals the lower-cased filter, all cases when the filter is absent or the empty
\* string, by success rate descending, cases of equal rate in table order.
C4_CaseQuery ==
  request.op = "cases" =>
    /\ response.status = 200
    /\ IsStableRanking(response.body, CasesSelected(request.location_type,
                                                    IsAbsentOrEmpty(request.location_type)))

\* Three cases returned, the best one from behind in the table, then two of equal rate.
C4_Witness ==
  /\ request.op = "cases"
  /\ Len(response.body) = 3
  /\ CasePosition(response.body[1]) > 1
  /\ response.body[2].success_rate = response.body[3].success_rate
  /\ response.body[1].success_rate > response.body[2].success_rate

\* The location type the classification rules give a lower-cased location, first match first.
ExpectedLocationType(k) ==
  CASE StrIn(Text("poligono"), k) \/ StrIn(Text("industrial"), k) -> Text("industrial")
    [] ~(StrIn(Text("poligono"), k) \/ StrIn(Text("industrial"), k))
       /\ (StrIn(Text("autovia"), k) \/ StrIn(Text("carretera"), k)) -> Text("highway")
    [] ~(StrIn(Text("poligono"), k) \/ StrIn(Text("industrial"), k))
       /\ ~(StrIn(Text("autovia"), k) \/ StrIn(Text("carretera"), k))
       /\ (StrIn(Text("metro"), k) \/ StrIn(Text("tunel"), k)) -> Text("underground")
    [] OTHER -> Text("urban")

\* C5: the diagnosis classifies the lower-cased location industrial, highway, underground
\* or urban, the first rule that matches winning, so that a location with both "poligono"
\* and "metro" is industrial; the similar cases returned are all of the classified type.
C5_Classification ==
  request.op = "diagnose" =>
    LET k == Lower(request.body.location)
    IN  /\ \A i \in 1..Len(response.similar_cases) :
             response.similar_cases[i].location_type = ExpectedLocationType(k)
        /\ (StrIn(Text("poligono"), k) /\ StrIn(Text("metro"), k)) =>
             \A i \in 1..Len(response.similar_cases) :
               response.similar_cases[i].location_type = Text("industrial")

\* "metro" ahead of "poligono" in the location: the industrial case is returned.
C5_Witness ==
  /\ request.op = "diagnose"
  /\ request.body.location = Text("Metro Poligono")
  /\ Len(response.similar_cases) = 1
  /\ response.similar_cases[1].case_id = Text("CASE-5G-0654")
  /\ response.similar_cases[1].location_type = Text("industrial")

\* C6: context_found is true exactly when the diagnosis returns a cell site or an
\* incident; active maintenance and similar cases do not change it.
C6_ContextFound ==
  request.op = "diagnose" =>
    response.context_found
      <=> (Len(response.cell_sites_nearby) > 0 \/ Len(response.active_incidents) > 0)

\* Maintenance is active and a case is found, yet context_found is false.
C6_Witness ==
  /\ request.op = "diagnose"
  /\ Len(response.cell_sites_nearby) = 0
  /\ Len(response.active_incidents) = 0
  /\ Len(response.scheduled_maintenance) > 0
  /\ Len(response.similar_cases) > 0
  /\ ~response.context_found

\* C7: additional_context is the sentinel text exactly when the diagnosis found no cell
\* site, no incident, no active maintenance window and no similar case.
C7_Sentinel ==
  request.op = "diagnose" =>
    (response.additional_context = Text("No hay contexto adicional disponible"))
      <=> /\ Len(response.cell_sites_nearby) = 0
          /\ Len(response.active_incidents) = 0
          /\ Len(response.scheduled_maintenance) = 0
          /\ Len(response.similar_cases) = 0

\* Nothing is found and the sentinel is returned.
C7_Witness ==
  /\ request.op = "diagnose"
  /\ Len(response.cell_sites_nearby) = 0
  /\ Len(response.active_incidents) = 0
  /\ Len(response.scheduled_maintenance) = 0
  /\ Len(response.similar_cases) = 0
  /\ response.additional_context = Text("No hay contexto adicional disponible")

\* C8: recommended_products is the Interference-Detection product if the lower-cased
\* issue type contains "interference" or the lower-cased symptoms joined by spaces
\* contain "signal", then the Geolocation product if the lower-cased issue type contains
\* "coverage" or "cobertura", then always the Anomaly-Detection product.
C8_Products ==
  request.op = "diagnose" =>
    LET issue == Lower(request.body.issue_type)
        joined == Lower(Join(Text(" "), request.body.symptoms))
        names == [i \in 1..Len(response.recommended_products) |->
                    response.recommended_products[i].product_name]
    IN  /\ names =
             (IF StrIn(Text("interference"), issue) \/ StrIn(Text("signal"), joined)
              THEN <<"Kenmei Interference Detection">> ELSE <<>>)
             \o (IF StrIn(Text("coverage"), issue) \/ StrIn(Text("cobertura"), issue)
                 THEN <<"Kenmei Geolocation - Virtual Drive Testing">> ELSE <<>>)
             \o <<"Kenmei AI Agents - Anomaly Detection">>
        /\ \A i \in 1..Len(response.recommended_products) :
             \E j \in 1..Len(KenmeiProductsLiteral) :
               response.recommended_products[i] = KenmeiProductsLiteral[j]

\* Both rules fire: three products, in the fixed order.
C8_Witness ==
  /\ request.op = "diagnose"
  /\ Len(response.recommended_products) = 3
  /\ response.recommended_products[1].product_name = "Kenmei Interference Detection"
  /\ response.recommended_products[2].product_name = "Kenmei Geolocation - Virtual Drive Testing"
  /\ response.recommended_products[3].product_name = "Kenmei AI Agents - Anomaly Detection"

\* The sites of the buckets from position i on whose key is in k or contains k.
RECURSIVE BucketsMatching(_, _)
BucketsMatching(i, k) ==
  IF i > Len(CellSitesLiteral) THEN <<>>
  ELSE (IF StrIn(CellSitesLiteral[i].key, k) \/ StrIn(k, CellSitesLiteral[i].key)
        THEN CellSitesLiteral[i].sites ELSE <<>>)
       \o BucketsMatching(i + 1, k)

\* C9: cell_sites_nearby is the concatenation, in table order, of every bucket whose key
\* is a substring of the lower-cased location or has it as a substring;
\* "downtown valencia" gets the valencia bucket.
C9_SiteResolution ==
  request.op = "diagnose" =>
    /\ response.cell_sites_nearby = BucketsMatching(1, Lower(request.body.location))
    /\ request.body.location = Text("downtown valencia") =>
         [i \in 1..Len(response.cell_sites_nearby) |-> response.cell_sites_nearby[i].site_id]
           = <<Text("VLC-001"), Text("VLC-002"), Text("VLC-003")>>

\* A location contained in every key gets the union of all four buckets.
C9_Witness ==
  /\ request.op = "diagnose"
  /\ request.body.location = Text("a")
  /\ [i \in 1..Len(response.cell_sites_nearby) |-> response.cell_sites_nearby[i].site_id]
       = <<Text("VLC-001"), Text("VLC-002"), Text("VLC-003"), Text("PTR-001"), Text("PTR-002"),
           Text("MAD-A3-280"), Text("BCN-M01")>>

\* C10: whatever requests were served, the five tables hold what the module built, in
\* the same order; the sort of the case listing and of the diagnosis leaves the case
\* table alone.
C10_TablesUnchanged ==
  /\ CELL_SITES_DB = CellSitesLiteral
  /\ ACTIVE_INCIDENTS_DB = ActiveIncidentsLiteral
  /\ SCHEDULED_MAINTENANCE_DB = ScheduledMaintenanceLiteral
  /\ KENMEI_PRODUCTS_DB = KenmeiProductsLiteral
  /\ SIMILAR_CASES_DB = SimilarCasesLiteral

\* The unfiltered case listing was returned in another order than the table's.
C10_Witness ==
  /\ request.op = "cases"
  /\ request.location_type = None
  /\ Len(response.body) = Len(SimilarCasesLiteral)
  /\ response.body # SimilarCasesLiteral
  /\ SIMILAR_CASES_DB = SimilarCasesLiteral

\* A list holds the same product at two positions.
HasDuplicate(products) ==
  \E i, j \in 1..Len(products) : i # j /\ products[i] = products[j]

\* The number of recommendation rules a request fires: the interference rule, the
\* coverage rule and the unconditional one.
RulesFired(issue_type, symptoms) ==
  LET issue == Lower(issue_type)
      joined == Lower(Join(Text(" "), symptoms))
  IN  (IF StrIn(Text("interference"), issue) \/ StrIn(Text("signal"), joined) THEN 1 ELSE 0)
      + (IF StrIn(Text("coverage"), issue) \/ StrIn(Text("cobertura"), issue) THEN 1 ELSE 0)
      + 1

\* C11 as stated: some issue type and symptom list make the recommendation hold the
\* same catalog product more than once.
C11_AsStated ==
  \E issue_type \in IssueTypes, symptoms \in SeqsUpTo(SymptomTexts, MaxSymptoms) :
    HasDuplicate(RecommendProducts(issue_type, symptoms))

\* C11: recommended_products never holds the same catalog product twice: it has one
\* entry per rule fired, at most three, each a different product of the catalog, and
\* the catalog itself lists no product twice.
C11_NoDuplicates ==
  /\ ~HasDuplicate(KENMEI_PRODUCTS_DB)
  /\ request.op = "diagnose" =>
       /\ ~HasDuplicate(response.recommended_products)
       /\ Len(response.recommended_products)
            = RulesFired(request.body.issue_type, request.body.symptoms)
       /\ \A i, j \in 1..Len(response.recommended_products) :
            i # j => response.recommended_products[i].product_name
                       # response.recommended_products[j].product_name

\* Every rule fires, the first one through both of its conditions, and the three
\* products returned differ.
C11_Witness ==
  /\ request.op = "diagnose"
  /\ StrIn(Text("interference"), Lower(request.body.issue_type))
  /\ StrIn(Text("signal"), Lower(Join(Text(" "), request.body.symptoms)))
  /\ StrIn(Text("coverage"), Lower(request.body.issue_type))
  /\ Len(request.body.symptoms) > 1
  /\ Len(response.recommended_products) = 3
  /\ ~HasDuplicate(response.recommended_products)

\* The location types the classifier can produce.
ClassifierTypes == {Text("industrial"), Text("highway"), Text("underground"), Text("urban")}

\* C12: with the shipped catalog, each of the four location types the classifier can
\* produce has a case, so every diagnosis, at every call time, returns at least one
\* similar case, of the type of its location, and additional_context is never the
\* sentinel text, whether or not a site or an incident was found.
C12_NeverSentinel ==
  /\ \A location_type \in ClassifierTypes :
       \E i \in 1..Len(SIMILAR_CASES_DB) : SIMILAR_CASES_DB[i].location_type = location_type
  /\ request.op = "diagnose" =>
       /\ ClassifyLocation(Lower(request.body.location)) \in ClassifierTypes
       /\ Len(response.similar_cases) > 0
       /\ \A i \in 1..Len(response.similar_cases) :
            response.similar_cases[i].location_type
              = ClassifyLocation(Lower(request.body.location))
       /\ response.additional_context # NoContext

\* A diagnosis after the maintenance window has ended, for a location that matches no
\* site and no incident: context_found is false and the narrative is the line about the
\* similar case alone.
C12_Witness ==
  /\ request.op = "diagnose"
  /\ Len(response.cell_sites_nearby) = 0
  /\ Len(response.active_incidents) = 0
  /\ Len(response.scheduled_maintenance) = 0
  /\ ~response.context_found
  /\ Len(response.similar_cases) = 1
  /\ response.additional_context
       = Text(":books: Se encontraron 1 casos similares resueltos con éxito")

====
